---------------------------- MODULE Spec2Model ----------------------------
(***************************************************************************)
(* Vector-Vibe: the acoustic feature pipeline of the bot.                  *)
(*                                                                         *)
(*   extract_mfcc        (src/callbacks/user_cb.py)  matrix -> bytes       *)
(*   calculate_mean_mfcc (src/handlers/cmds.py)      rows -> taste vector  *)
(*   match_users         (src/handlers/cmds.py)      two users -> score    *)
(*                                                                         *)
(* Numbers.  A stored coefficient is a float32, modelled by its four bytes *)
(* (little endian, IEEE-754) and valued by F32Value.  numpy and sklearn    *)
(* compute on these in floating point; the model computes the same         *)
(* expressions on exact rationals <<n, d>> (d > 0, lowest terms), with     *)
(* <<0, 0>> for NaN.  Rounding error is therefore not modelled.            *)
(***************************************************************************)
EXTENDS Integers, Sequences, FiniteSets, TLC

(***************************************************************************)
(* Program constants.                                                      *)
(***************************************************************************)
\* n_mfcc=20 in extract_mfcc, reshape(20, -1) in calculate_mean_mfcc
D == 20
\* dtype=np.float32: four bytes per coefficient
ElementWidth == 4

(***************************************************************************)
(* Bounds of the model.                                                    *)
(***************************************************************************)
\* most frames of an extracted fingerprint
MaxT == 2
\* most rows the tracks table holds
MaxTracks == 2

(***************************************************************************)
(* Exact rationals.                                                        *)
(***************************************************************************)
RECURSIVE GCD(_, _)
GCD(a, b) == IF b = 0 THEN a ELSE GCD(b, a % b)

Abs(x) == IF x < 0 THEN -x ELSE x

NaN == <<0, 0>>

IsNaN(x) == x[2] = 0

\* n/d in lowest terms, d # 0
Rat(n, d) ==
    LET g == GCD(Abs(n), Abs(d))
        s == IF d < 0 THEN -1 ELSE 1
    IN  <<s * (n \div g), s * (d \div g)>>

Zero == <<0, 1>>

RInt(k) == <<k, 1>>

RAdd(x, y) ==
    IF IsNaN(x) \/ IsNaN(y) THEN NaN
    ELSE LET g == GCD(x[2], y[2])
         IN  Rat(x[1] * (y[2] \div g) + y[1] * (x[2] \div g), (x[2] \div g) * y[2])

RNeg(x) == IF IsNaN(x) THEN NaN ELSE <<-x[1], x[2]>>

RSub(x, y) == RAdd(x, RNeg(y))

RMul(x, y) ==
    IF IsNaN(x) \/ IsNaN(y) THEN NaN
    ELSE LET g1 == GCD(Abs(x[1]), y[2])
             g2 == GCD(Abs(y[1]), x[2])
         IN  <<(x[1] \div g1) * (y[1] \div g2), (x[2] \div g2) * (y[2] \div g1)>>

\* x / y; a zero divisor gives NaN (numpy: 0/0 -> nan, the only case reached)
RDiv(x, y) ==
    IF IsNaN(x) \/ IsNaN(y) \/ y[1] = 0 THEN NaN
    ELSE RMul(x, IF y[1] < 0 THEN <<-y[2], -y[1]>> ELSE <<y[2], y[1]>>)

RSign(x) == IF x[1] > 0 THEN 1 ELSE IF x[1] < 0 THEN -1 ELSE 0

RLeq(x, y) == x[1] * y[2] <= y[1] * x[2]

RECURSIVE RSumRange(_, _, _)
\* s[lo] + ... + s[hi], halving the range
RSumRange(s, lo, hi) ==
    IF lo > hi THEN Zero
    ELSE IF lo = hi THEN s[lo]
    ELSE LET mid == (lo + hi) \div 2
         IN  RAdd(RSumRange(s, lo, mid), RSumRange(s, mid + 1, hi))

\* the sum of a sequence of rationals
RSum(s) == RSumRange(s, 1, Len(s))

\* a sequence given as a function, as a tuple of its values
Tuple(f) == f \o <<>>

\* np.mean of a 1-d slice: the mean of no values is NaN
RMean(s) == RDiv(RSum(s), RInt(Len(s)))

\* np.var of a 1-d slice: population variance, mean(|x - mean(x)|^2)
RVar(s) ==
    LET m == RMean(s)
    IN  RMean(Tuple([i \in 1..Len(s) |-> RMul(RSub(s[i], m), RSub(s[i], m))]))


(***************************************************************************)
(* float32 values as their four bytes, little endian.                      *)
(***************************************************************************)
Pow2(k) == 2 ^ k

\* the number a float32 denotes: sign, 8 exponent bits, 23 mantissa bits
F32Value(q) ==
    LET sign == q[4] \div 128
        ex   == (q[4] % 128) * 2 + q[3] \div 128
        mant == (q[3] % 128) * 65536 + q[2] * 256 + q[1]
        s    == IF sign = 1 THEN -1 ELSE 1
    IN  CASE ex = 255 /\ mant # 0 -> NaN
          [] ex = 0 /\ mant = 0   -> Zero
          [] ex >= 150 /\ ex < 255 -> Rat(s * (Pow2(23) + mant) * Pow2(ex - 150), 1)
          [] ex > 0 /\ ex < 150   -> Rat(s * (Pow2(23) + mant), Pow2(150 - ex))

\* the float32 constants the audio of the model is made of
F32Zero   == <<0, 0, 0, 0>>
F32One    == <<0, 0, 128, 63>>
F32Two    == <<0, 0, 0, 64>>
F32Three  == <<0, 0, 64, 64>>
F32MinusOne == <<0, 0, 128, 191>>

(***************************************************************************)
(* extract_mfcc: librosa.feature.mfcc returns a matrix of shape            *)
(* (n_mfcc, frames) = (D, T), float32; m[d][t] is coefficient d of frame   *)
(* t.  tobytes() writes it in C order: row after row, that is coefficient  *)
(* after coefficient.                                                      *)
(***************************************************************************)
\* frame after frame instead, as of the transposed matrix
tobytes_frame_major(m) ==
    LET T == Len(m[1])
    IN  Tuple([i \in 1..(D * T * ElementWidth) |->
            LET e == (i - 1) \div ElementWidth
            IN  m[(e % D) + 1][(e \div D) + 1][((i - 1) % ElementWidth) + 1]])

tobytes(m) ==
    LET T == Len(m[1])
    IN  Tuple([i \in 1..(D * T * ElementWidth) |->
            LET e == (i - 1) \div ElementWidth
            IN  m[(e \div T) + 1][(e % T) + 1][((i - 1) % ElementWidth) + 1]])

extract_mfcc(mfcc) == tobytes(mfcc)

(***************************************************************************)
(* A value of the column tracks.mfcc (LargeBinary, nullable): NULL or a    *)
(* byte string.                                                            *)
(***************************************************************************)
NULL == [null |-> TRUE, data |-> <<>>]

Bytes(b) == [null |-> FALSE, data |-> b]

(***************************************************************************)
(* calculate_mean_mfcc, line 60: the per-track reduction                   *)
(*   np.frombuffer(mfcc, dtype=np.float32).reshape(20, -1).mean(axis=1)    *)
(* Each step is a predicate saying when it raises and the value it gives   *)
(* when it does not.                                                       *)
(***************************************************************************)
\* np.frombuffer raises TypeError on None and ValueError when the buffer
\* size is no multiple of the element size
frombuffer_raises(col) ==
    col.null \/ Len(col.data) % ElementWidth # 0

\* the elements in buffer order
frombuffer(col) ==
    Tuple([e \in 1..(Len(col.data) \div ElementWidth) |->
        Tuple([k \in 1..ElementWidth |-> col.data[(e - 1) * ElementWidth + k]])])

\* reshape(20, -1) raises ValueError when the size is no multiple of 20;
\* the empty array reshapes to (20, 0)
reshape_raises(elems) == Len(elems) % D # 0

\* reshape(-1, 20).T instead: frame t holds elements (t-1)*D+1 .. t*D
reshape_frame_major(elems) ==
    LET T == Len(elems) \div D
    IN  Tuple([d \in 1..D |-> Tuple([t \in 1..T |-> elems[(t - 1) * D + d]])])

\* row d holds elements (d-1)*T+1 .. d*T
reshape(elems) ==
    LET T == Len(elems) \div D
    IN  Tuple([d \in 1..D |-> Tuple([t \in 1..T |-> elems[(d - 1) * T + t]])])

\* mean(axis=1): per row the mean over the columns (NaN for no columns)
mean_axis1(m) ==
    Tuple([d \in 1..D |-> RMean(Tuple([t \in 1..Len(m[d]) |-> F32Value(m[d][t])]))])

decode_raises(col) ==
    frombuffer_raises(col) \/ reshape_raises(frombuffer(col))

decode(col) == reshape(frombuffer(col))

mfcc_vector(col) == mean_axis1(decode(col))

(***************************************************************************)
(* calculate_mean_mfcc(tracks): tracks is the result of get_user_tracks, a *)
(* sequence of rows [mfcc, artist].                                        *)
(***************************************************************************)
\* np.zeros(40), the literal of line 56
TasteLen == 40

zeros(n) == Tuple([i \in 1..n |-> Zero])

\* the keys of artist_mfcc, in insertion order: each artist at its first row
artist_keys(tracks) ==
    LET first(i) == \A j \in 1..(i - 1) : tracks[j].artist # tracks[i].artist
        idx == SelectSeq([i \in 1..Len(tracks) |-> i], first)
    IN  Tuple([k \in 1..Len(idx) |-> tracks[idx[k]].artist])

\* artist_mfcc[artist]: the track means of the artist's rows, in row order
artist_vectors(tracks, artist) ==
    LET mine(i) == tracks[i].artist = artist
        idx == SelectSeq([i \in 1..Len(tracks) |-> i], mine)
    IN  Tuple([k \in 1..Len(idx) |-> mfcc_vector(tracks[idx[k]].mfcc)])

\* np.mean(vectors, axis=0)
mean_axis0(vectors) ==
    Tuple([d \in 1..D |-> RMean(Tuple([k \in 1..Len(vectors) |-> vectors[k][d]]))])

\* np.var(vectors, axis=0, ddof=1): the sample variance instead
var_axis0_sample(vectors) ==
    Tuple([d \in 1..D |->
        LET x == Tuple([k \in 1..Len(vectors) |-> vectors[k][d]])
            m == RMean(x)
        IN  RDiv(RSum(Tuple([k \in 1..Len(x) |-> RMul(RSub(x[k], m), RSub(x[k], m))])),
                 RInt(Len(x) - 1))])

\* np.var(vectors, axis=0)
var_axis0(vectors) ==
    Tuple([d \in 1..D |-> RVar(Tuple([k \in 1..Len(vectors) |-> vectors[k][d]]))])

\* the loop of lines 59-61 raises when one row's decoding raises
calculate_mean_mfcc_raises(tracks) ==
    \E i \in 1..Len(tracks) : decode_raises(tracks[i].mfcc)

\* every track weighing the same, whoever its artist is
calculate_mean_mfcc_per_track(tracks) ==
    IF tracks = <<>> THEN zeros(TasteLen)
    ELSE LET vectors == Tuple([i \in 1..Len(tracks) |-> mfcc_vector(tracks[i].mfcc)])
         IN  mean_axis0(vectors) \o var_axis0(vectors)

\* the version before the variance was added (lines 40-51): D zeros for no
\* rows, else the mean over the artists only
calculate_mean_mfcc_mean_only(tracks) ==
    IF tracks = <<>> THEN zeros(D)
    ELSE LET keys == artist_keys(tracks)
             groups == Tuple([k \in 1..Len(keys) |-> artist_vectors(tracks, keys[k])])
         IN  mean_axis0(Tuple([k \in 1..Len(keys) |-> mean_axis0(groups[k])]))

calculate_mean_mfcc(tracks) ==
    IF tracks = <<>> THEN zeros(TasteLen)
    ELSE LET keys == artist_keys(tracks)
             groups == Tuple([k \in 1..Len(keys) |-> artist_vectors(tracks, keys[k])])
             mean_vectors == Tuple([k \in 1..Len(keys) |-> mean_axis0(groups[k])])
             var_vectors == Tuple([k \in 1..Len(keys) |-> var_axis0(groups[k])])
             mean_mfcc == mean_axis0(mean_vectors)
             var_mfcc == mean_axis0(var_vectors)
         IN  mean_mfcc \o var_mfcc

(***************************************************************************)
(* sklearn's cosine_similarity([vec1], [vec2])[0][0]: both rows are        *)
(* divided by their norm, a zero norm being replaced by 1, and multiplied. *)
(* The cosine c is kept exactly as its sign and its square:                *)
(*   c = sign * sqrt(sq).                                                  *)
(***************************************************************************)
dot(a, b) == RSum(Tuple([i \in 1..Len(a) |-> RMul(a[i], b[i])]))

\* _handle_zeros_in_scale: a zero norm divides as 1
handle_zeros(n) == IF n = Zero THEN RInt(1) ELSE n

\* check_pairwise_arrays raises ValueError on NaN and on rows of different
\* lengths
\* a zero norm raising (ZeroDivisionError) instead of dividing as 1
cosine_similarity_raises_on_zero(a, b) ==
    \/ \E i \in 1..Len(a) : IsNaN(a[i])
    \/ \E i \in 1..Len(b) : IsNaN(b[i])
    \/ Len(a) # Len(b)
    \/ dot(a, a) = Zero
    \/ dot(b, b) = Zero

cosine_similarity_raises(a, b) ==
    \/ \E i \in 1..Len(a) : IsNaN(a[i])
    \/ \E i \in 1..Len(b) : IsNaN(b[i])
    \/ Len(a) # Len(b)

\* dividing by the norm of the first row twice
cosine_similarity_one_norm(a, b) ==
    LET ab == dot(a, b)
        aa == handle_zeros(dot(a, a))
    IN  [sign |-> RSign(ab), sq |-> RMul(RDiv(ab, aa), RDiv(ab, aa))]

\* the rows not normalised: the plain dot product
cosine_similarity_dot(a, b) ==
    LET ab == dot(a, b)
    IN  [sign |-> RSign(ab), sq |-> RMul(ab, ab)]

cosine_similarity(a, b) ==
    LET ab == dot(a, b)
        aa == handle_zeros(dot(a, a))
        bb == handle_zeros(dot(b, b))
    IN  [sign |-> RSign(ab), sq |-> RMul(RDiv(ab, aa), RDiv(ab, bb))]

\* the scores 0 and 100
Score0 == [sign |-> 0, sq |-> Zero]

\* c * 100
times100(c) == [sign |-> c.sign, sq |-> RMul(c.sq, RInt(10000))]

\* no clamp
max0_none(x) == x

\* max(0, x)
max0(x) == IF x.sign > 0 THEN x ELSE Score0

Score100 == [sign |-> 1, sq |-> RInt(10000)]

(***************************************************************************)
(* The world outside: Telegram users and the tracks the music service      *)
(* finds.  The audio of a track is given by the matrix librosa computes    *)
(* from it: Mfcc(T, x, y, z) has T frames; in frame 1 the odd coefficients *)
(* are x and the even ones y, in the later frames all are z.               *)
(***************************************************************************)
Mfcc(T, x, y, z) ==
    Tuple([d \in 1..D |-> Tuple([t \in 1..T |->
        IF t > 1 THEN z ELSE IF d % 2 = 1 THEN x ELSE y])])

TgUsers ==
    { [username |-> "ann", chat_id |-> 101],
      [username |-> "bob", chat_id |-> 102] }

\* file is FALSE when no MP3 could be downloaded (file_path stays None)
Catalogue ==
    { [title |-> "a1", artist |-> "A", file |-> TRUE,
       mfcc |-> Mfcc(1, F32One, F32One, F32One)],
      [title |-> "b1", artist |-> "B", file |-> TRUE,
       mfcc |-> Mfcc(2, F32Two, F32MinusOne, F32Zero)],
      [title |-> "b2", artist |-> "B", file |-> TRUE,
       mfcc |-> Mfcc(1, F32MinusOne, F32MinusOne, F32MinusOne)],
      [title |-> "n0", artist |-> "A", file |-> FALSE,
       mfcc |-> <<>>] }

\* the (title, artist) pairs orm.db.add_track is called with
Untagged == { [title |-> "x", artist |-> "A"] }

(***************************************************************************)
(* State.  users, tracks and reply are the bot's: the two tables and what  *)
(* the last handler answered.  fp, buf and out follow one fingerprint      *)
(* through extraction, storage and decoding; view and taste are the        *)
(* argument and the result of one call of calculate_mean_mfcc.             *)
(***************************************************************************)
VARIABLES
    users,    \* table users: row i has id i; [username, chat_id]
    tracks,   \* table tracks: row i has id i; [user_id, title, artist, mfcc]
    reply,    \* what the last handler answered; of a /match also the
              \* locals vec1 and vec2 of match_users
    fp,       \* the matrix librosa gave for the fingerprint in hand
    buf,      \* the fingerprint's value in the column tracks.mfcc
    out,      \* what line 60 made of buf
    view,     \* the rows get_user_tracks returned
    taste,    \* what calculate_mean_mfcc made of view
    pair,     \* the two vectors cosine_similarity is given
    cmp,      \* what line 75 made of pair
    tasks,    \* the handler tasks the dispatcher started, with their locals
    loop      \* the task running on the event loop's thread, 0 for none

vars == <<users, tracks, reply, fp, buf, out, view, taste, pair, cmp, tasks, loop>>

botVars == <<users, tracks, reply>>

codecVars == <<fp, buf, out>>

aggVars == <<view, taste>>

simVars == <<pair, cmp>>

loopVars == <<tasks, loop>>

None == [kind |-> "none"]

BotInit == users = <<>> /\ tracks = <<>> /\ reply = None

CodecIdle == fp = <<>> /\ buf = NULL /\ out = None

AggIdle == view = <<>> /\ taste = None

SimIdle == pair = <<>> /\ cmp = None

LoopIdle == tasks = <<>> /\ loop = 0

Init == BotInit /\ CodecIdle /\ AggIdle /\ SimIdle /\ LoopIdle

\* select(User).where(User.chat_id == chat_id) ... first(): the id, 0 for None
get_user_by_chat_id(chat_id) ==
    IF \E i \in 1..Len(users) : users[i].chat_id = chat_id
    THEN CHOOSE i \in 1..Len(users) : users[i].chat_id = chat_id
    ELSE 0

\* select(User).where(User.username == username) ... first()
get_user_by_username(username) ==
    IF \E i \in 1..Len(users) : users[i].username = username
    THEN CHOOSE i \in 1..Len(users) : users[i].username = username
    ELSE 0

\* the rows as a cache filled when the user registered would give them: none
get_user_tracks_none(user_id) == <<>>

\* select(Track.mfcc, Track.artist).where(Track.user_id == user_id)
get_user_tracks(user_id) ==
    LET mine(r) == r.user_id = user_id
        rows == SelectSeq(tracks, mine)
    IN  Tuple([k \in 1..Len(rows) |-> [mfcc |-> rows[k].mfcc, artist |-> rows[k].artist]])

\* match_users: [raised |-> TRUE] when an aggregation or the cosine raises,
\* else the similarity max(0, cosine * 100), with the locals vec1 and vec2
match_users(user1_id, user2_id) ==
    LET tracks1 == get_user_tracks(user1_id)
        tracks2 == get_user_tracks(user2_id)
    IN  IF calculate_mean_mfcc_raises(tracks1) \/ calculate_mean_mfcc_raises(tracks2)
        THEN [raised |-> TRUE]
        ELSE LET vec1 == calculate_mean_mfcc(tracks1)
                 vec2 == calculate_mean_mfcc(tracks2)
             IN  IF cosine_similarity_raises(vec1, vec2)
                 THEN [raised |-> TRUE]
                 ELSE [raised |-> FALSE, vec1 |-> vec1, vec2 |-> vec2,
                       similarity |-> max0(times100(cosine_similarity(vec1, vec2)))]

(***************************************************************************)
(* delete_song_callback, the "confirm:" callback: the found track is       *)
(* downloaded, the user is looked up or created, the fingerprint is        *)
(* extracted and the row is added.                                         *)
(***************************************************************************)
\* get_or_create_user: the users table afterwards
get_or_create_user(username, chat_id) ==
    IF get_user_by_username(username) # 0 THEN users
    ELSE Append(users, [username |-> username, chat_id |-> chat_id])

\* add_track_to_db: the tracks table afterwards
add_track_to_db(user_id, title, artist, mfcc) ==
    Append(tracks, [user_id |-> user_id, title |-> title, artist |-> artist,
                    mfcc |-> Bytes(mfcc)])

\* librosa.load raises on file_path None: the callback ends after the user
\* was looked up or created, and adds no row
Confirm(tg, track) ==
    /\ Len(tracks) < MaxTracks
    /\ users' = get_or_create_user(tg.username, tg.chat_id)
    /\ LET user_id == CHOOSE i \in 1..Len(users') : users'[i].username = tg.username
       IN  IF track.file
           THEN /\ tracks' = add_track_to_db(user_id, track.title, track.artist,
                                             extract_mfcc(track.mfcc))
                /\ reply' = [kind |-> "added", user_id |-> user_id,
                             track_count |-> Len(SelectSeq(tracks',
                                 LAMBDA r : r.user_id = user_id))]
           ELSE /\ tracks' = tracks
                /\ reply' = [kind |-> "raised", handler |-> "delete_song_callback"]
    /\ UNCHANGED <<codecVars, aggVars, simVars, loopVars>>

(***************************************************************************)
(* handle_match, "/match @username".                                       *)
(***************************************************************************)
Match(tg, username) ==
    LET sender == get_user_by_chat_id(tg.chat_id)
        receiver == get_user_by_username(username)
    IN  /\ reply' =
              IF sender = 0 \/ receiver = 0
              THEN [kind |-> "notfound"]
              ELSE LET similarity == match_users(sender, receiver)
                   IN  IF similarity.raised
                       THEN [kind |-> "raised", handler |-> "handle_match",
                             sender |-> sender, receiver |-> receiver]
                       ELSE [kind |-> "score", sender |-> sender,
                             receiver |-> receiver,
                             vec1 |-> similarity.vec1, vec2 |-> similarity.vec2,
                             similarity |-> similarity.similarity]
        /\ UNCHANGED <<users, tracks, codecVars, aggVars, simVars, loopVars>>

(***************************************************************************)
(* The bot as main.py runs it: the handlers that read or write the tables. *)
(* (start, handle_download, show_song and del_ only send messages.)        *)
(***************************************************************************)
Next ==
    \/ \E tg \in TgUsers, track \in Catalogue : Confirm(tg, track)
    \/ \E tg \in TgUsers, other \in TgUsers : Match(tg, other.username)

Spec == Init /\ [][Next]_vars

(***************************************************************************)
(* The bot together with orm.db.add_track, which no handler calls: it adds *)
(* a row without a fingerprint.                                            *)
(***************************************************************************)
AddTrack(user_id, title, artist) ==
    /\ Len(tracks) < MaxTracks
    /\ tracks' = Append(tracks, [user_id |-> user_id, title |-> title,
                                 artist |-> artist, mfcc |-> NULL])
    /\ reply' = [kind |-> "row"]
    /\ UNCHANGED <<users, codecVars, aggVars, simVars, loopVars>>

NextDb ==
    \/ Next
    \/ \E i \in 1..Len(users), t \in Untagged : AddTrack(i, t.title, t.artist)

SpecDb == Init /\ [][NextDb]_vars

(***************************************************************************)
(* One fingerprint from extraction to the track mean.  Extract is          *)
(* extract_mfcc on the audio of some track; Foreign puts into the column   *)
(* bytes that extract_mfcc did not write (the column takes any byte        *)
(* string); Decode is line 60 of calculate_mean_mfcc.                      *)
(***************************************************************************)
\* most bytes of a foreign buffer
MaxBytes == 165

F32s == {F32Zero, F32One, F32Two, F32Three, F32MinusOne}

Audio == { Mfcc(T, x, y, z) : T \in 1..MaxT, x \in F32s, y \in F32s, z \in F32s }

Extract(mfcc) ==
    /\ fp = <<>> /\ buf = NULL /\ out = None
    /\ fp' = mfcc
    /\ buf' = Bytes(extract_mfcc(mfcc))
    /\ UNCHANGED <<out, botVars, aggVars, simVars, loopVars>>

Foreign(n) ==
    /\ fp = <<>> /\ buf = NULL /\ out = None
    /\ buf' = Bytes(Tuple([i \in 1..n |-> 0]))
    /\ UNCHANGED <<fp, out, botVars, aggVars, simVars, loopVars>>

Decode ==
    /\ out = None
    /\ out' = IF decode_raises(buf)
              THEN [kind |-> "raised"]
              ELSE [kind |-> "decoded", matrix |-> decode(buf),
                    mfcc_vector |-> mfcc_vector(buf)]
    /\ UNCHANGED <<fp, buf, botVars, aggVars, simVars, loopVars>>

CodecNext ==
    \/ \E mfcc \in Audio : Extract(mfcc)
    \/ \E n \in 0..MaxBytes : Foreign(n)
    \/ Decode

CodecSpec == Init /\ [][CodecNext]_vars

(***************************************************************************)
(* One call of calculate_mean_mfcc on the rows of one user.                *)
(***************************************************************************)
\* most rows of the user
MaxRows == 3

Entries ==
    { [artist |-> "A", mfcc |-> Bytes(tobytes(Mfcc(1, F32One, F32One, F32One)))],
      [artist |-> "A", mfcc |-> Bytes(tobytes(Mfcc(2, F32Three, F32Three, F32Three)))],
      [artist |-> "B", mfcc |-> Bytes(tobytes(Mfcc(2, F32Two, F32MinusOne, F32Zero)))],
      [artist |-> "B", mfcc |-> Bytes(tobytes(Mfcc(1, F32MinusOne, F32MinusOne, F32MinusOne)))],
      [artist |-> "A", mfcc |-> NULL] }

Views == UNION { [1..n -> Entries] : n \in 0..MaxRows }

AggInit == BotInit /\ CodecIdle /\ SimIdle /\ LoopIdle /\ view \in Views /\ taste = None

Aggregate ==
    /\ taste = None
    /\ taste' = IF calculate_mean_mfcc_raises(view)
                THEN [kind |-> "raised"]
                ELSE [kind |-> "vector", vec |-> calculate_mean_mfcc(view)]
    /\ UNCHANGED <<view, botVars, codecVars, simVars, loopVars>>

AggNext == Aggregate

AggSpec == AggInit /\ [][AggNext]_vars

(***************************************************************************)
(* Claims about the aggregation, checked under AggSpec.                    *)
(***************************************************************************)
meanProfile(vec) == SubSeq(vec, 1, D)

varianceProfile(vec) == SubSeq(vec, D + 1, 2 * D)

\* every artist's rows of the view have one and the same track mean
OneMeanPerArtist(v) ==
    \A i \in 1..Len(v), j \in 1..Len(v) :
        v[i].artist = v[j].artist => mfcc_vector(v[i].mfcc) = mfcc_vector(v[j].mfcc)

\* the view with, of every artist, only the first row
FirstRowPerArtist(v) ==
    LET first(i) == \A j \in 1..(i - 1) : v[j].artist # v[i].artist
        idx == SelectSeq([i \in 1..Len(v) |-> i], first)
    IN  [k \in 1..Len(idx) |-> v[idx[k]]]

\* C1 (artist balance): when all of an artist's tracks have the same track
\* mean, the meanProfile of the library is that of the library holding one
\* track per artist: n tracks by X weigh as one track by X, whatever n is,
\* and a single artist X with track mean v gives meanProfile v.
C1_ArtistBalance ==
    (taste.kind = "vector" /\ OneMeanPerArtist(view)) =>
        /\ meanProfile(taste.vec) =
               meanProfile(calculate_mean_mfcc(FirstRowPerArtist(view)))
        /\ (view # <<>> /\ \A i \in 1..Len(view) : view[i].artist = view[1].artist)
               => meanProfile(taste.vec) = mfcc_vector(view[1].mfcc)

\* an artist with two tracks and another with one, of different track means
C1_Witness ==
    /\ taste.kind = "vector"
    /\ OneMeanPerArtist(view)
    /\ Len(view) = 3
    /\ view[1].artist = view[2].artist
    /\ view[3].artist # view[1].artist
    /\ mfcc_vector(view[3].mfcc) # mfcc_vector(view[1].mfcc)

\* the vector of D times x followed by D times y
Halves(x, y) == [i \in 1..(2 * D) |-> IF i <= D THEN x ELSE y]

\* the artists of the view, and the track means of one of them
ArtistsOf(v) == { v[i].artist : i \in 1..Len(v) }

RowsOf(v, a) == { i \in 1..Len(v) : v[i].artist = a }

RECURSIVE SetSum(_, _)
\* the sum of f[x] over the x in S
SetSum(f, S) ==
    IF S = {} THEN Zero
    ELSE LET x == CHOOSE y \in S : TRUE
         IN  RAdd(f[x], SetSum(f, S \ {x}))

\* the mean of f[x] over the x in S
SetMean(f, S) == RDiv(SetSum(f, S), RInt(Cardinality(S)))

\* coefficient d of the artist's mean of track means, and of their
\* population variance, as E[x^2] - E[x]^2
ArtistMean(v, a, d) ==
    SetMean([i \in RowsOf(v, a) |-> mfcc_vector(v[i].mfcc)[d]], RowsOf(v, a))

ArtistVariance(v, a, d) ==
    LET x == [i \in RowsOf(v, a) |-> mfcc_vector(v[i].mfcc)[d]]
        m == SetMean(x, RowsOf(v, a))
    IN  RSub(SetMean([i \in RowsOf(v, a) |-> RMul(x[i], x[i])], RowsOf(v, a)),
             RMul(m, m))

\* C2: the taste vector is concat(meanProfile, varianceProfile), meanProfile
\* the mean over the artists of the artist's mean of track means and
\* varianceProfile the mean over the artists of the artist's population
\* variance of track means; one artist with track means (1,..,1) and (3,..,3)
\* gives (2,..,2, 1,..,1).
C2_TasteVector ==
    (taste.kind = "vector" /\ view # <<>>) =>
        /\ Len(taste.vec) = 2 * D
        /\ \A d \in 1..D :
              /\ meanProfile(taste.vec)[d] =
                     SetMean([a \in ArtistsOf(view) |-> ArtistMean(view, a, d)],
                             ArtistsOf(view))
              /\ varianceProfile(taste.vec)[d] =
                     SetMean([a \in ArtistsOf(view) |-> ArtistVariance(view, a, d)],
                             ArtistsOf(view))
        /\ ( /\ Len(view) = 2
             /\ view[1].artist = view[2].artist
             /\ mfcc_vector(view[1].mfcc) = [d \in 1..D |-> RInt(1)]
             /\ mfcc_vector(view[2].mfcc) = [d \in 1..D |-> RInt(3)] )
               => taste.vec = Halves(RInt(2), RInt(1))

\* the scenario of the claim has been aggregated
C2_Witness ==
    /\ taste.kind = "vector"
    /\ Len(view) = 2
    /\ view[1].artist = view[2].artist
    /\ mfcc_vector(view[1].mfcc) = [d \in 1..D |-> RInt(1)]
    /\ mfcc_vector(view[2].mfcc) = [d \in 1..D |-> RInt(3)]
    /\ taste.vec = Halves(RInt(2), RInt(1))

(***************************************************************************)
(* Claims about the similarity, checked on the answers of /match.          *)
(***************************************************************************)
IsZeroVector(v) == \A i \in 1..Len(v) : v[i] = Zero

\* the rows of the user that line 60 decodes
ValidRows(user_id) ==
    SelectSeq(get_user_tracks(user_id), LAMBDA r : ~decode_raises(r.mfcc))

\* exactly one row of the user is corrupt, and at least one is valid
OneCorruptAmongValid(user_id) ==
    /\ Len(get_user_tracks(user_id)) = Len(ValidRows(user_id)) + 1
    /\ Len(ValidRows(user_id)) >= 1

AllValid(user_id) == Len(get_user_tracks(user_id)) = Len(ValidRows(user_id))

FromMatch ==
    \/ reply.kind = "score"
    \/ reply.kind = "raised" /\ reply.handler = "handle_match"

\* C3 (as claimed): a library with one corrupt entry among valid ones is
\* aggregated without that entry: the /match is answered, with the score of
\* the valid entries.
C3_CorruptEntrySkipped ==
    ( /\ FromMatch
      /\ \A u \in {reply.sender, reply.receiver} : AllValid(u) \/ OneCorruptAmongValid(u)
      /\ \E u \in {reply.sender, reply.receiver} : OneCorruptAmongValid(u) )
    => /\ reply.kind = "score"
       /\ reply.similarity =
              max0(times100(cosine_similarity(
                  calculate_mean_mfcc(ValidRows(reply.sender)),
                  calculate_mean_mfcc(ValidRows(reply.receiver)))))

\* C7 (bounds): every similarity is in [0, 100], and it is 0 when the cosine
\* of the two taste vectors is negative.
C7_Bounds ==
    reply.kind = "score" =>
        /\ reply.similarity.sign \in {0, 1}
        /\ RLeq(Zero, reply.similarity.sq)
        /\ RLeq(reply.similarity.sq, RInt(10000))
        /\ reply.similarity.sign = 0 => reply.similarity.sq = Zero
        /\ RSign(dot(reply.vec1, reply.vec2)) < 0 => reply.similarity = Score0

\* a /match of two users whose taste vectors make an obtuse angle
C7_Witness ==
    /\ reply.kind = "score"
    /\ RSign(dot(reply.vec1, reply.vec2)) < 0
    /\ reply.similarity = Score0

\* C8 (symmetry): the similarity of (vec1, vec2) is that of (vec2, vec1), and
\* with the tables as they are the receiver matching the sender gets the
\* score the sender got.
C8_Symmetry ==
    reply.kind = "score" =>
        /\ max0(times100(cosine_similarity(reply.vec2, reply.vec1))) = reply.similarity
        /\ match_users(reply.receiver, reply.sender).similarity = reply.similarity

\* two users of different taste vectors, neither a multiple of the other
C8_Witness ==
    /\ reply.kind = "score"
    /\ reply.sender # reply.receiver
    /\ reply.vec1 # reply.vec2
    /\ reply.similarity # Score0
    /\ reply.similarity # Score100
    /\ dot(reply.vec1, reply.vec1) # dot(reply.vec2, reply.vec2)

\* C9 (zero vector): a /match of registered users is answered even when a
\* taste vector has zero norm, and then with 0; so is every /match with a
\* user of empty library.
C9_ZeroVector ==
    /\ FromMatch => reply.kind = "score"
    /\ reply.kind = "score" =>
          /\ (IsZeroVector(reply.vec1) \/ IsZeroVector(reply.vec2))
                 => reply.similarity = Score0
          /\ (get_user_tracks(reply.sender) = <<>> \/ get_user_tracks(reply.receiver) = <<>>)
                 => (reply.similarity = Score0 /\
                     (IsZeroVector(reply.vec1) \/ IsZeroVector(reply.vec2)))

\* a user of empty library has been matched with a user of non-zero taste
\* vector, and got 0
C9_Witness ==
    /\ reply.kind = "score"
    /\ get_user_tracks(reply.sender) = <<>>
    /\ IsZeroVector(reply.vec1)
    /\ ~IsZeroVector(reply.vec2)
    /\ reply.similarity = Score0

\* C10 (self-similarity): equal non-zero taste vectors score 100.
C10_SelfSimilarity ==
    (reply.kind = "score" /\ reply.vec1 = reply.vec2 /\ ~IsZeroVector(reply.vec1))
        => reply.similarity = Score100

\* two different users of the same non-zero taste vector have been matched
C10_Witness ==
    /\ reply.kind = "score"
    /\ reply.sender # reply.receiver
    /\ reply.vec1 = reply.vec2
    /\ ~IsZeroVector(reply.vec1)
    /\ reply.similarity = Score100

(***************************************************************************)
(* Claims about the stored bytes, checked under CodecSpec.                 *)
(***************************************************************************)
\* the buffer's length is a positive multiple of D * ElementWidth
PositiveMultiple(col) ==
    /\ ~col.null
    /\ Len(col.data) > 0
    /\ Len(col.data) % (D * ElementWidth) = 0

\* C4 (as claimed): decoding fails for every buffer whose length is not a
\* positive multiple of D * ElementWidth, the empty buffer included; no such
\* buffer gets a track mean.
C4_DecodeRejects ==
    (out # None /\ ~PositiveMultiple(buf)) => out.kind = "raised"

\* the frames of the fingerprint in hand
Frames == Len(fp[1])

\* the fingerprint in hand has two frames that differ and two coefficients
\* that differ
Uneven == fp # <<>> /\ Frames >= 2 /\ fp[1][1] # fp[1][2] /\ fp[1][1] # fp[2][1]

\* C5 (round trip): the bytes extract_mfcc wrote decode to the matrix that
\* was extracted, element by element, and the track mean is its mean over
\* the frames.
C5_RoundTrip ==
    (fp # <<>> /\ out # None) =>
        /\ out.kind = "decoded"
        /\ out.matrix = fp
        /\ \A d \in 1..D :
              RMul(out.mfcc_vector[d], RInt(Frames)) =
                  RSum([t \in 1..Frames |-> F32Value(fp[d][t])])

\* an uneven fingerprint has been stored and decoded
C5_Witness == Uneven /\ out # None /\ out.kind = "decoded" /\ out.matrix = fp

\* element e (from 0) of the stored bytes
Element(col, e) == SubSeq(col.data, e * ElementWidth + 1, (e + 1) * ElementWidth)

C11_ZeroLibrary ==
    taste.kind = "vector" =>
        /\ Len(taste.vec) = 2 * D
        /\ view = <<>> =>
              \A i \in 1..(2 * D) : taste.vec[i] = Zero

\* the empty view has been aggregated
C11_Witness == view = <<>> /\ taste.kind = "vector" /\ Len(taste.vec) = 2 * D

(***************************************************************************)
(* Line 75 of match_users on two given vectors, one comparison after the   *)
(* other: max(0, cosine_similarity([vec1], [vec2])[0][0] * 100).  A        *)
(* ValueError of cosine_similarity leaves the handler; the dispatcher logs *)
(* it and goes on with the next update.                                    *)
(***************************************************************************)
\* half the length of the longest short vector
MaxHalf == 3

\* h times x followed by h times y
HalfVector(h, x, y) == Tuple([i \in 1..(2 * h) |-> IF i <= h THEN x ELSE y])

\* the values of the two halves
SimValues ==
    { <<RInt(1), RInt(1)>>, <<RInt(1), RInt(-1)>>, <<Zero, Zero>>, <<NaN, RInt(1)>> }

SimVectors ==
    { HalfVector(h, v[1], v[2]) : h \in (2..MaxHalf) \cup {D}, v \in SimValues }

\* the rows compared up to the length of the shorter one
cosine_score_prefix(a, b) ==
    LET n == IF Len(a) < Len(b) THEN Len(a) ELSE Len(b)
        pa == SubSeq(a, 1, n)
        pb == SubSeq(b, 1, n)
    IN  IF cosine_similarity_raises(pa, pb)
        THEN [kind |-> "raised"]
        ELSE [kind |-> "score",
              similarity |-> max0(times100(cosine_similarity(pa, pb)))]

cosine_score(a, b) ==
    IF cosine_similarity_raises(a, b)
    THEN [kind |-> "raised"]
    ELSE [kind |-> "score",
          similarity |-> max0(times100(cosine_similarity(a, b)))]

\* cmp.before is how the comparison before this one ended
Compare(a, b) ==
    /\ pair' = <<a, b>>
    /\ cmp' = [outcome |-> cosine_score(a, b),
               before |-> IF cmp = None THEN "none" ELSE cmp.outcome.kind]
    /\ UNCHANGED <<botVars, codecVars, aggVars, loopVars>>

SimNext == \E a \in SimVectors, b \in SimVectors : Compare(a, b)

SimSpec == Init /\ [][SimNext]_vars

Finite(a) == \A i \in 1..Len(a) : ~IsNaN(a[i])

\* C12 (dimension mismatch): two vectors of different lengths are given no
\* score, the comparison raises; and whatever the comparisons before it did,
\* a comparison of two finite vectors of one length is given its score.
C12_DimensionMismatch ==
    cmp # None =>
        /\ Len(pair[1]) # Len(pair[2]) => cmp.outcome = [kind |-> "raised"]
        /\ (Len(pair[1]) = Len(pair[2]) /\ Finite(pair[1]) /\ Finite(pair[2])) =>
              /\ cmp.outcome.kind = "score"
              /\ cmp.outcome.similarity =
                     max0(times100(cosine_similarity(pair[1], pair[2])))

\* vectors of lengths 4 and 6 have been compared, and raised
C12_Witness ==
    /\ cmp # None
    /\ Len(pair[1]) = 4
    /\ Len(pair[2]) = 6
    /\ Finite(pair[1])
    /\ Finite(pair[2])
    /\ cmp.outcome.kind = "raised"
    /\ cmp.before = "score"

(***************************************************************************)
(* Claims about the rows of the tracks table, checked under SpecDb.        *)
(***************************************************************************)
\* C13 (as claimed): every row of tracks carries a fingerprint of at least
\* one frame: its mfcc is not NULL and holds a positive multiple of
\* D * ElementWidth bytes.
C13_PersistedFingerprint ==
    \A i \in 1..Len(tracks) : PositiveMultiple(tracks[i].mfcc)

(***************************************************************************)
(* The handlers as the tasks dp.start_polling runs them: the dispatcher    *)
(* starts one task per update, all on one event loop thread.  A task runs  *)
(* from one await of I/O to the next without another task running in       *)
(* between; at such an await (a statement of the database, a request to    *)
(* the music service) it leaves the thread to the others.  An action       *)
(* below is one such stretch of one task.  extract_mfcc awaits nothing:    *)
(* librosa runs on the loop's thread, which the task keeps (loop = i)      *)
(* from the return of get_or_create_user to the commit of add_track_to_db. *)
(***************************************************************************)
\* most updates the dispatcher receives
MaxUpdates == 2

\* the tracks the confirmed searches of this specification find
LoopCatalogue == { t \in Catalogue : t.title \in {"a1", "n0"} }

\* the task is at an await whose I/O has completed
Waiting(i) == tasks[i].pc \notin {"extracting", "done", "raised"}

\* the loop can resume the task
CanRun(i) == Waiting(i) /\ loop = 0

At(i, handler, pc) ==
    /\ i \in 1..Len(tasks)
    /\ tasks[i].handler = handler
    /\ tasks[i].pc = pc
    /\ CanRun(i)

\* an update "confirm:<name>" from tg: delete_song_callback up to line 61
DispatchConfirm(tg, track) ==
    /\ Len(tasks) < MaxUpdates
    /\ loop = 0
    /\ tasks' = Append(tasks, [handler |-> "delete_song_callback", tg |-> tg,
                               track |-> track, pc |-> "search", user |-> 0,
                               mfcc |-> <<>>, reply |-> None])
    /\ UNCHANGED <<loop, botVars, codecVars, aggVars, simVars>>

\* an update "/match @username" from tg: handle_match up to line 84;
\* since is the number of rows of tracks at that moment
DispatchMatch(tg, username) ==
    /\ Len(tasks) < MaxUpdates
    /\ loop = 0
    /\ tasks' = Append(tasks, [handler |-> "handle_match", tg |-> tg,
                               username |-> username, pc |-> "sender",
                               since |-> Len(tracks), sender |-> 0,
                               receiver |-> 0, tracks1 |-> <<>>,
                               tracks2 |-> <<>>, reply |-> None])
    /\ UNCHANGED <<loop, botVars, codecVars, aggVars, simVars>>

\* line 61: sdk.search_tracks has returned the track, downloaded or not;
\* get_or_create_user runs up to its select
Search(i) ==
    /\ At(i, "delete_song_callback", "search")
    /\ tasks' = [tasks EXCEPT ![i].pc = "select"]
    /\ UNCHANGED <<loop, botVars, codecVars, aggVars, simVars>>

\* get_or_create_user, lines 24-26: the select has returned.  With a row
\* the function returns it, and the callback goes on into extract_mfcc.
SelectUser(i) ==
    /\ At(i, "delete_song_callback", "select")
    /\ LET user == get_user_by_username(tasks[i].tg.username)
       IN  IF user # 0
           THEN /\ tasks' = [tasks EXCEPT ![i].pc = "extracting", ![i].user = user]
                /\ loop' = i
           ELSE /\ tasks' = [tasks EXCEPT ![i].pc = "insert"]
                /\ loop' = loop
    /\ UNCHANGED <<botVars, codecVars, aggVars, simVars>>

\* User.username and User.chat_id are unique: the insert of a second row
\* raises IntegrityError
insert_raises(username, chat_id) ==
    \E k \in 1..Len(users) :
        users[k].username = username \/ users[k].chat_id = chat_id

\* get_or_create_user, lines 27-30: the insert has been committed, or has
\* raised; after it the callback goes on into extract_mfcc
InsertUser(i) ==
    /\ At(i, "delete_song_callback", "insert")
    /\ IF insert_raises(tasks[i].tg.username, tasks[i].tg.chat_id)
       THEN /\ tasks' = [tasks EXCEPT ![i].pc = "raised",
                             ![i].reply = [kind |-> "raised", in |-> "get_or_create_user"]]
            /\ UNCHANGED <<users, loop>>
       ELSE /\ users' = Append(users, [username |-> tasks[i].tg.username,
                                       chat_id |-> tasks[i].tg.chat_id])
            /\ tasks' = [tasks EXCEPT ![i].pc = "extracting", ![i].user = Len(users) + 1]
            /\ loop' = i
    /\ UNCHANGED <<tracks, reply, codecVars, aggVars, simVars>>

\* line 65: extract_mfcc has returned the bytes, or librosa.load has raised
\* on file_path None; add_track_to_db runs up to its commit
Extracted(i) ==
    /\ i \in 1..Len(tasks)
    /\ tasks[i].pc = "extracting"
    /\ loop = i
    /\ tasks' = IF tasks[i].track.file
                THEN [tasks EXCEPT ![i].pc = "add",
                          ![i].mfcc = extract_mfcc(tasks[i].track.mfcc)]
                ELSE [tasks EXCEPT ![i].pc = "raised",
                          ![i].reply = [kind |-> "raised", in |-> "extract_mfcc"]]
    /\ loop' = 0
    /\ UNCHANGED <<botVars, codecVars, aggVars, simVars>>

\* line 66: the row has been committed
AddTrackToDb(i) ==
    /\ At(i, "delete_song_callback", "add")
    /\ tracks' = add_track_to_db(tasks[i].user, tasks[i].track.title,
                                 tasks[i].track.artist, tasks[i].mfcc)
    /\ tasks' = [tasks EXCEPT ![i].pc = "count"]
    /\ UNCHANGED <<users, reply, loop, codecVars, aggVars, simVars>>

\* lines 67-68: get_user_track_count has returned and the message is edited
TrackCount(i) ==
    /\ At(i, "delete_song_callback", "count")
    /\ tasks' = [tasks EXCEPT ![i].pc = "done",
                     ![i].reply = [kind |-> "added",
                         track_count |-> Len(get_user_tracks(tasks[i].user))]]
    /\ UNCHANGED <<loop, botVars, codecVars, aggVars, simVars>>

\* handle_match, line 84: get_user_by_chat_id has returned
Sender(i) ==
    /\ At(i, "handle_match", "sender")
    /\ tasks' = [tasks EXCEPT ![i].pc = "receiver",
                     ![i].sender = get_user_by_chat_id(tasks[i].tg.chat_id)]
    /\ UNCHANGED <<loop, botVars, codecVars, aggVars, simVars>>

\* lines 85-90: get_user_by_username has returned; without one of the two
\* users the handler replies and ends
Receiver(i) ==
    /\ At(i, "handle_match", "receiver")
    /\ LET receiver == get_user_by_username(tasks[i].username)
       IN  tasks' = IF tasks[i].sender = 0 \/ receiver = 0
                    THEN [tasks EXCEPT ![i].pc = "done",
                              ![i].reply = [kind |-> "notfound"]]
                    ELSE [tasks EXCEPT ![i].pc = "tracks1",
                              ![i].receiver = receiver]
    /\ UNCHANGED <<loop, botVars, codecVars, aggVars, simVars>>

\* match_users, line 73: get_user_tracks(user1_id) has returned and vec1 is
\* computed
Tracks1(i) ==
    /\ At(i, "handle_match", "tracks1")
    /\ LET tracks1 == get_user_tracks(tasks[i].sender)
       IN  tasks' = IF calculate_mean_mfcc_raises(tracks1)
                    THEN [tasks EXCEPT ![i].pc = "raised", ![i].tracks1 = tracks1,
                              ![i].reply = [kind |-> "raised", in |-> "calculate_mean_mfcc"]]
                    ELSE [tasks EXCEPT ![i].pc = "tracks2", ![i].tracks1 = tracks1]
    /\ UNCHANGED <<loop, botVars, codecVars, aggVars, simVars>>

\* match_users, lines 74-75, and line 91: get_user_tracks(user2_id) has
\* returned, vec2 and the similarity are computed and replied
Tracks2(i) ==
    /\ At(i, "handle_match", "tracks2")
    /\ LET tracks2 == get_user_tracks(tasks[i].receiver)
       IN  tasks' =
              IF calculate_mean_mfcc_raises(tracks2)
              THEN [tasks EXCEPT ![i].pc = "raised", ![i].tracks2 = tracks2,
                        ![i].reply = [kind |-> "raised", in |-> "calculate_mean_mfcc"]]
              ELSE LET vec1 == calculate_mean_mfcc(tasks[i].tracks1)
                       vec2 == calculate_mean_mfcc(tracks2)
                   IN  [tasks EXCEPT ![i].pc = "done", ![i].tracks2 = tracks2,
                            ![i].reply = [kind |-> "match", vec1 |-> vec1, vec2 |-> vec2,
                                          outcome |-> cosine_score(vec1, vec2)]]
    /\ UNCHANGED <<loop, botVars, codecVars, aggVars, simVars>>

LoopNext ==
    \/ \E tg \in TgUsers, track \in LoopCatalogue : DispatchConfirm(tg, track)
    \/ \E tg \in TgUsers, other \in TgUsers : DispatchMatch(tg, other.username)
    \/ \E i \in 1..Len(tasks) : Search(i)
    \/ \E i \in 1..Len(tasks) : SelectUser(i)
    \/ \E i \in 1..Len(tasks) : InsertUser(i)
    \/ \E i \in 1..Len(tasks) : Extracted(i)
    \/ \E i \in 1..Len(tasks) : AddTrackToDb(i)
    \/ \E i \in 1..Len(tasks) : TrackCount(i)
    \/ \E i \in 1..Len(tasks) : Sender(i)
    \/ \E i \in 1..Len(tasks) : Receiver(i)
    \/ \E i \in 1..Len(tasks) : Tracks1(i)
    \/ \E i \in 1..Len(tasks) : Tracks2(i)

LoopSpec == Init /\ [][LoopNext]_vars

(***************************************************************************)
(* Claims about the handlers running as tasks, checked under LoopSpec.     *)
(***************************************************************************)
\* what get_user_tracks(user_id) returned when tracks had its first n rows
RowsUpTo(n, user_id) ==
    LET mine(r) == r.user_id = user_id
        rows == SelectSeq(SubSeq(tracks, 1, n), mine)
    IN  [k \in 1..Len(rows) |-> [mfcc |-> rows[k].mfcc, artist |-> rows[k].artist]]

IsPrefix(a, b) == Len(a) <= Len(b) /\ \A k \in 1..Len(a) : a[k] = b[k]

\* the rows read for the user hold every row of the user committed before
\* the request, and only rows of the table
ReadSince(rows, since, user_id) ==
    /\ IsPrefix(RowsUpTo(since, user_id), rows)
    /\ IsPrefix(rows, get_user_tracks(user_id))

\* C14 (never cached): a /match computes both taste vectors from rows it
\* reads itself: the rows read for a user hold every row of that user that
\* was committed when the request came in, and the vectors compared are
\* calculate_mean_mfcc of the rows read.
C14_NeverCached ==
    \A i \in 1..Len(tasks) :
        tasks[i].handler = "handle_match" =>
            /\ tasks[i].pc = "tracks2" =>
                  ReadSince(tasks[i].tracks1, tasks[i].since, tasks[i].sender)
            /\ tasks[i].reply # None /\ tasks[i].reply.kind = "match" =>
                  /\ ReadSince(tasks[i].tracks1, tasks[i].since, tasks[i].sender)
                  /\ ReadSince(tasks[i].tracks2, tasks[i].since, tasks[i].receiver)
                  /\ tasks[i].reply.vec1 = calculate_mean_mfcc(tasks[i].tracks1)
                  /\ tasks[i].reply.vec2 = calculate_mean_mfcc(tasks[i].tracks2)
                  /\ tasks[i].reply.outcome =
                         cosine_score(tasks[i].reply.vec1, tasks[i].reply.vec2)

\* a /match that came in after a track of its sender was committed has been
\* answered from a taste vector made of that track
C14_Witness ==
    \E i \in 1..Len(tasks) :
        /\ tasks[i].handler = "handle_match"
        /\ tasks[i].reply # None
        /\ tasks[i].reply.kind = "match"
        /\ RowsUpTo(tasks[i].since, tasks[i].sender) # <<>>
        /\ tasks[i].tracks1 # <<>>
        /\ ~IsZeroVector(tasks[i].reply.vec1)
        /\ tasks[i].reply.outcome = [kind |-> "score", similarity |-> Score100]

\* C15 (as claimed): while a task is inside extract_mfcc, every other task
\* whose await has completed can be resumed.
C15_LoopResponsive ==
    \A i \in 1..Len(tasks), j \in 1..Len(tasks) :
        (i # j /\ tasks[i].pc = "extracting" /\ Waiting(j)) => CanRun(j)

\* C16 (as claimed): users holds at most one row per username, and every
\* call of get_or_create_user returns the row of its username: none raises,
\* and the user a callback goes on with is that row.
C16_GetOrCreateUser ==
    /\ \A k \in 1..Len(users), l \in 1..Len(users) :
          users[k].username = users[l].username => k = l
    /\ \A i \in 1..Len(tasks) :
          tasks[i].handler = "delete_song_callback" =>
              /\ tasks[i].reply # [kind |-> "raised", in |-> "get_or_create_user"]
              /\ tasks[i].user # 0 =>
                    users[tasks[i].user].username = tasks[i].tg.username

=============================================================================
